---- MODULE Spec2Model ----
(***************************************************************************)
(* Model of src/mappings/pricing.ts of the Balancer v2 subgraph: the USD   *)
(* valuation of tokens (updateLatestPrice, valueInUSD), of pools           *)
(* (updatePoolLiquidity, updateBptPrice) and the global Balancer total.    *)
(*                                                                         *)
(* The entity store is a set of records per entity type, each record with  *)
(* an id; load is a lookup by id, save replaces the record with that id.   *)
(* A BigDecimal is modelled as a fixed-point integer: the decimal v is the *)
(* integer v * SCALE.  plus, minus and times are exact, div keeps a        *)
(* bounded number of digits, as the BigDecimal of graph-ts does.           *)
(***************************************************************************)
EXTENDS Integers, Sequences, FiniteSets, TLC

\* ------------------------------------------------------------ bounds
\* Longest sequence of handler calls explored.
MaxCalls == 4
\* Resolution of a BigDecimal quotient: div truncates to multiples of 1/SCALE.
SCALE == 100

\* ------------------------------------------------------------ BigDecimal
BD(n) == n * SCALE
ZERO_BD == 0
ONE_BD == SCALE
plus(a, b) == a + b
minus(a, b) == a - b
times(a, b) == (a * b) \div SCALE
div(a, b) == (a * SCALE) \div b
gt(a, b) == a > b
equals(a, b) == a = b

\* An optional field (BigDecimal | null, string | null): <<>> is null.
NULL == <<>>
Some(v) == <<v>>
Unwrap(o) == o[1]

\* ------------------------------------------------------------ addresses
ZERO_ADDRESS == "0x0"
USDC == "USDC"
DAI == "DAI"
WETH == "WETH"
WBTC == "WBTC"
TKN == "TKN"
BPT1 == "BPT1"
BPT2 == "BPT2"
Addresses == {USDC, DAI, WETH, WBTC, TKN, BPT1, BPT2}

\* helpers/constants: the two ordered registries.
PRICING_ASSETS == <<WETH, WBTC, USDC, DAI>>
USD_STABLE_ASSETS == <<USDC, DAI>>

\* Seconds per day, the bucket of the daily snapshots.
DAY == 86400

\* ------------------------------------------------------------ inputs
PoolIds == {"P1", "P2"}
\* "P3" is a pool id no Pool entity has.
CallPoolIds == PoolIds \cup {"P3"}
\* (block, timestamp) of the events that trigger a valuation.
Events == {<<1, 100>>, <<2, 86500>>}
\* Price observations (TokenPrice entities) the handlers submit.
ObsPairs == {<<TKN, USDC>>, <<TKN, WETH>>, <<WETH, USDC>>}
ObsShapes == {[block |-> 2, poolId |-> "P1", price |-> BD(2)],
              [block |-> 1, poolId |-> "P2", price |-> BD(4)]}
TokenPrices == {[asset |-> p[1], pricingAsset |-> p[2], block |-> s.block,
                 poolId |-> s.poolId, price |-> s.price] :
                p \in ObsPairs, s \in ObsShapes}

VARIABLES
    Pool,                     \* Pool entities
    PoolToken,                \* PoolToken entities: balance per (pool, token)
    Token,                    \* Token entities, by address
    LatestPrice,              \* LatestPrice entities
    PoolHistoricalLiquidity,  \* PoolHistoricalLiquidity entities
    Balancer,                 \* the Balancer singleton (id "2"), or no row
    BalancerSnapshot,         \* daily copies of Balancer.totalLiquidity
    PoolSnapshot,             \* daily copies of a pool's liquidity
    observed,                 \* history: last TokenPrice processed per pair
    last,                     \* history: the last call and what it returned
    calls                     \* number of calls made

store == <<Pool, PoolToken, Token, LatestPrice, PoolHistoricalLiquidity,
           Balancer, BalancerSnapshot, PoolSnapshot>>
vars == <<Pool, PoolToken, Token, LatestPrice, PoolHistoricalLiquidity,
          Balancer, BalancerSnapshot, PoolSnapshot, observed, last, calls>>

\* ------------------------------------------------------------ entity store
Exists(table, id) == \E r \in table : r.id = id
Load(table, id) == CHOOSE r \in table : r.id = id
Save(table, rec) == {r \in table : r.id # rec.id} \cup {rec}

\* The store as one value, so that a handler is a function of it.
Store ==
    [Pool |-> Pool, PoolToken |-> PoolToken, Token |-> Token,
     LatestPrice |-> LatestPrice,
     PoolHistoricalLiquidity |-> PoolHistoricalLiquidity,
     Balancer |-> Balancer, BalancerSnapshot |-> BalancerSnapshot,
     PoolSnapshot |-> PoolSnapshot]

\* ------------------------------------------------------------ registry
isPricingAsset(asset) ==
    \E i \in 1..Len(PRICING_ASSETS) : PRICING_ASSETS[i] = asset

isUSDStable(asset) ==
    \E i \in 1..Len(USD_STABLE_ASSETS) : USD_STABLE_ASSETS[i] = asset

\* ------------------------------------------------------------ helpers
\* helpers/misc getToken: load the Token, creating one without a price when
\* there is none; Token is therefore total over the addresses.
getToken(s, tokenAddress) == s.Token[tokenAddress]

getPoolTokenId(poolId, tokenAddress) == <<poolId, "-", tokenAddress>>

\* helpers/misc loadPoolToken: the PoolToken of (pool, token), NULL if none.
loadPoolToken(s, poolId, tokenAddress) ==
    IF Exists(s.PoolToken, getPoolTokenId(poolId, tokenAddress))
    THEN Some(Load(s.PoolToken, getPoolTokenId(poolId, tokenAddress)))
    ELSE NULL

\* helpers/pools hasVirtualSupply: a capability of the pool's type.
hasVirtualSupply(pool) == pool.poolType \in {"StablePhantom", "Linear"}

getLatestPriceId(tokenAddress, pricingAsset) ==
    <<tokenAddress, "-", pricingAsset>>

\* Mutant: the id leaves the block out.
getPoolHistoricalLiquidityId_NoBlock(poolId, tokenAddress, block) ==
    <<poolId, "-", tokenAddress>>

getPoolHistoricalLiquidityId(poolId, tokenAddress, block) ==
    <<poolId, "-", tokenAddress, "-", block>>

\* ------------------------------------------------------------ valueInUSD
\* Mutant: no short cut for USD-stable assets.
valueInUSD_NoStableShortcut(s, value, asset) ==
    LET token == getToken(s, asset)
    IN  IF token.latestUSDPrice # NULL
        THEN times(value, Unwrap(token.latestUSDPrice))
        ELSE ZERO_BD

\* Mutant: an asset without price keeps the value unconverted.
valueInUSD_UnpricedKeepsValue(s, value, asset) ==
    IF isUSDStable(asset)
    THEN value
    ELSE LET token == getToken(s, asset)
         IN  IF token.latestUSDPrice # NULL
             THEN times(value, Unwrap(token.latestUSDPrice))
             ELSE value

valueInUSD(s, value, asset) ==
    IF isUSDStable(asset)
    THEN value
    ELSE LET token == getToken(s, asset)
         IN  IF token.latestUSDPrice # NULL
             THEN times(value, Unwrap(token.latestUSDPrice))
             ELSE ZERO_BD

\* ------------------------------------------------------------ updateBptPrice
\* Mutant: the total is stored as the price, without the division.
updateBptPrice_NoDivision(s, pool) ==
    IF equals(pool.totalShares, ZERO_BD)
    THEN s
    ELSE [s EXCEPT !.Token[pool.address] =
             [getToken(s, pool.address) EXCEPT !.latestUSDPrice =
                 Some(pool.totalLiquidity)]]

updateBptPrice(s, pool) ==
    IF equals(pool.totalShares, ZERO_BD)
    THEN s
    ELSE LET bptAddress == pool.address
             bptToken == getToken(s, bptAddress)
         IN  [s EXCEPT !.Token[bptAddress] =
                 [bptToken EXCEPT !.latestUSDPrice =
                     Some(div(pool.totalLiquidity, pool.totalShares))]]

\* ------------------------------------------------------------ snapshots
dayOf(timestamp) == timestamp \div DAY

\* helpers/misc createPoolSnapshot: upsert the pool's daily snapshot.
createPoolSnapshot(s, pool, timestamp) ==
    [s EXCEPT !.PoolSnapshot =
        Save(@, [id |-> <<pool.id, "-", dayOf(timestamp)>>,
                 totalShares |-> pool.totalShares,
                 liquidity |-> pool.totalLiquidity])]

\* helpers/misc getBalancerSnapshot: load or create the vault's daily snapshot.
getBalancerSnapshot(s, vaultId, timestamp) ==
    LET id == <<vaultId, "-", dayOf(timestamp)>>
    IN  IF Exists(s.BalancerSnapshot, id)
        THEN Load(s.BalancerSnapshot, id)
        ELSE [id |-> id, totalLiquidity |-> ZERO_BD]

\* ------------------------------------------------------------ updatePoolLiquidity
\* Mutant: a pool of one token is valued.
tooFewTokens_OffByOne(tokensList) == Len(tokensList) < 1

\* Line 27: too few tokens to value the pool.
tooFewTokens(tokensList) == Len(tokensList) < 2

\* Mutant: the pool's own share token is never excluded.
poolTokenValue_NoExclusion(s, pool, tokenAddress) ==
    LET poolToken == loadPoolToken(s, pool.id, tokenAddress)
    IN  IF poolToken = NULL THEN ZERO_BD
        ELSE LET token == getToken(s, tokenAddress)
             IN  IF token.latestUSDPrice = NULL THEN ZERO_BD
                 ELSE times(Unwrap(token.latestUSDPrice), Unwrap(poolToken).balance)

\* Lines 34-49, one pass of the loop: what token j adds to the running total.
poolTokenValue(s, pool, tokenAddress) ==
    LET poolToken == loadPoolToken(s, pool.id, tokenAddress)
    IN  IF poolToken = NULL THEN ZERO_BD
        ELSE LET poolTokenQuantity == Unwrap(poolToken).balance
                 token == getToken(s, tokenAddress)
                 tokenLatestUSDPrice == token.latestUSDPrice
             IN  IF tokenLatestUSDPrice = NULL THEN ZERO_BD
                 ELSE IF hasVirtualSupply(pool) /\ pool.address = tokenAddress
                      THEN ZERO_BD
                      ELSE times(Unwrap(tokenLatestUSDPrice), poolTokenQuantity)

\* Lines 29-50: the loop over tokensList from index j on, added to acc.
RECURSIVE poolValueUSDFrom(_, _, _, _)
poolValueUSDFrom(s, pool, j, acc) ==
    IF j > Len(pool.tokensList)
    THEN acc
    ELSE poolValueUSDFrom(s, pool, j + 1,
                          plus(acc, poolTokenValue(s, pool, pool.tokensList[j])))

poolValueUSDOf(s, pool) == poolValueUSDFrom(s, pool, 1, ZERO_BD)

\* Mutant: the change is taken from zero, not from the stored total.
liquidityChangeOf_FromZero(newPoolLiquidity, oldPoolLiquidity) ==
    newPoolLiquidity

\* Line 54.
liquidityChangeOf(newPoolLiquidity, oldPoolLiquidity) ==
    minus(newPoolLiquidity, oldPoolLiquidity)

\* Line 58: the guard of the early return.
sanityCheckFails(poolValueUSD, newPoolLiquidity) ==
    gt(poolValueUSD, ZERO_BD) # gt(newPoolLiquidity, ZERO_BD)

\* Lines 63-70: the snapshot row of a valuation.
\* Mutant: the row is filled from the pool's stored total, not the new one.
newPoolHistoricalLiquidity_StaleTotal(pool, poolId, block, poolValueUSD) ==
    [id |-> getPoolHistoricalLiquidityId(poolId, USD_STABLE_ASSETS[1], block),
     poolId |-> poolId,
     pricingAsset |-> USD_STABLE_ASSETS[1],
     block |-> block,
     poolTotalShares |-> pool.totalShares,
     poolLiquidity |-> pool.totalLiquidity,
     poolShareValue |-> IF gt(pool.totalShares, ZERO_BD)
                        THEN div(pool.totalLiquidity, pool.totalShares)
                        ELSE ZERO_BD]

newPoolHistoricalLiquidity(pool, poolId, block, poolValueUSD) ==
    [id |-> getPoolHistoricalLiquidityId(poolId, USD_STABLE_ASSETS[1], block),
     poolId |-> poolId,
     pricingAsset |-> USD_STABLE_ASSETS[1],
     block |-> block,
     poolTotalShares |-> pool.totalShares,
     poolLiquidity |-> poolValueUSD,
     poolShareValue |-> IF gt(pool.totalShares, ZERO_BD)
                        THEN div(poolValueUSD, pool.totalShares)
                        ELSE ZERO_BD]

\* Mutant: the change is assigned to the Balancer total instead of added.
updateGlobalStats_Assigns(s, liquidityChange, timestamp) ==
    LET vault == Load(s.Balancer, "2")
        vault2 == [vault EXCEPT !.totalLiquidity = liquidityChange]
        s2 == [s EXCEPT !.Balancer = Save(@, vault2)]
        vaultSnapshot == getBalancerSnapshot(s2, vault2.id, timestamp)
    IN  [s2 EXCEPT !.BalancerSnapshot =
            Save(@, [vaultSnapshot EXCEPT
                        !.totalLiquidity = vault2.totalLiquidity])]

\* Lines 84-90: roll the change into the Balancer row and its daily snapshot.
\* Mutant: the daily snapshot copies the total before the change is added.
updateGlobalStats_SnapshotFirst(s, liquidityChange, timestamp) ==
    LET vault == Load(s.Balancer, "2")
        vault2 == [vault EXCEPT !.totalLiquidity = plus(@, liquidityChange)]
        s2 == [s EXCEPT !.Balancer = Save(@, vault2)]
        vaultSnapshot == getBalancerSnapshot(s2, vault2.id, timestamp)
    IN  [s2 EXCEPT !.BalancerSnapshot =
            Save(@, [vaultSnapshot EXCEPT
                        !.totalLiquidity = vault.totalLiquidity])]

updateGlobalStats(s, liquidityChange, timestamp) ==
    LET vault == Load(s.Balancer, "2")
        vault2 == [vault EXCEPT !.totalLiquidity = plus(@, liquidityChange)]
        s2 == [s EXCEPT !.Balancer = Save(@, vault2)]
        vaultSnapshot == getBalancerSnapshot(s2, vault2.id, timestamp)
    IN  [s2 EXCEPT !.BalancerSnapshot =
            Save(@, [vaultSnapshot EXCEPT
                        !.totalLiquidity = vault2.totalLiquidity])]

\* The whole function: the store it leaves, what it returns ("true", "false",
\* or "trap" when the cast of a missing Balancer row is dereferenced) and the
\* liquidityChange it computed.
updatePoolLiquidity(s, poolId, block, timestamp) ==
    IF ~Exists(s.Pool, poolId)
    THEN [store |-> s, ret |-> "false", liquidityChange |-> ZERO_BD]
    ELSE
    LET pool == Load(s.Pool, poolId)
    IN  IF tooFewTokens(pool.tokensList)
        THEN [store |-> s, ret |-> "false", liquidityChange |-> ZERO_BD]
        ELSE
        LET poolValueUSD == poolValueUSDOf(s, pool)
            oldPoolLiquidity == pool.totalLiquidity
            newPoolLiquidity == poolValueUSD
            liquidityChange == liquidityChangeOf(newPoolLiquidity, oldPoolLiquidity)
        IN  IF sanityCheckFails(poolValueUSD, newPoolLiquidity)
            THEN [store |-> s, ret |-> "false", liquidityChange |-> liquidityChange]
            ELSE
            LET phl == newPoolHistoricalLiquidity(pool, poolId, block, poolValueUSD)
                s1 == [s EXCEPT !.PoolHistoricalLiquidity = Save(@, phl)]
                pool2 == [pool EXCEPT !.totalLiquidity = newPoolLiquidity]
                s2 == [s1 EXCEPT !.Pool = Save(@, pool2)]
                s3 == updateBptPrice(s2, pool2)
                s4 == createPoolSnapshot(s3, pool2, timestamp)
            IN  IF ~Exists(s4.Balancer, "2")
                THEN [store |-> s4, ret |-> "trap",
                      liquidityChange |-> liquidityChange]
                ELSE [store |-> updateGlobalStats(s4, liquidityChange, timestamp),
                      ret |-> "true", liquidityChange |-> liquidityChange]

\* ------------------------------------------------------------ updateLatestPrice
\* Mutant: an observation of an earlier block is rejected.
overwriteLatestPrice_KeepNewest(latestPrice, tokenPrice) ==
    IF tokenPrice.block < latestPrice.block
    THEN latestPrice
    ELSE [latestPrice EXCEPT !.block = tokenPrice.block,
                             !.poolId = tokenPrice.poolId,
                             !.price = tokenPrice.price]

\* Lines 171-173: the fields every observation overwrites.
overwriteLatestPrice(latestPrice, tokenPrice) ==
    [latestPrice EXCEPT !.block = tokenPrice.block,
                        !.poolId = tokenPrice.poolId,
                        !.price = tokenPrice.price]

\* Mutant: an observation priced in an unpriced asset clears the price.
pricedToken_AbsentWhenUnpriced(s, token, tokenPrice, latestPriceId) ==
    [token EXCEPT
        !.latestUSDPrice =
            IF ~isUSDStable(tokenPrice.pricingAsset)
               /\ getToken(s, tokenPrice.pricingAsset).latestUSDPrice = NULL
            THEN NULL
            ELSE Some(valueInUSD(s, tokenPrice.price, tokenPrice.pricingAsset)),
        !.latestPrice = Some(latestPriceId)]

\* Lines 176-181: the asset's Token after the observation.
pricedToken(s, token, tokenPrice, latestPriceId) ==
    [token EXCEPT
        !.latestUSDPrice = Some(valueInUSD(s, tokenPrice.price, tokenPrice.pricingAsset)),
        !.latestPrice = Some(latestPriceId)]

\* Mutant: tokens priced in the observed asset are re-priced with it.
updateLatestPrice_Retroactive(s, tokenPrice) ==
    LET tokenAddress == tokenPrice.asset
        latestPriceId == getLatestPriceId(tokenAddress, tokenPrice.pricingAsset)
        latestPrice ==
            IF Exists(s.LatestPrice, latestPriceId)
            THEN Load(s.LatestPrice, latestPriceId)
            ELSE [id |-> latestPriceId, asset |-> tokenPrice.asset,
                  pricingAsset |-> tokenPrice.pricingAsset,
                  block |-> 0, poolId |-> "", price |-> ZERO_BD]
        s1 == [s EXCEPT !.LatestPrice =
                  Save(@, overwriteLatestPrice(latestPrice, tokenPrice))]
        s2 == [s1 EXCEPT !.Token[tokenAddress] =
                  pricedToken(s1, getToken(s1, tokenAddress), tokenPrice,
                              latestPriceId)]
        derived(a) ==
            /\ a # tokenAddress
            /\ s2.Token[a].latestPrice # NULL
            /\ Load(s2.LatestPrice, Unwrap(s2.Token[a].latestPrice)).pricingAsset
                  = tokenAddress
    IN  [s2 EXCEPT !.Token =
            [a \in DOMAIN s2.Token |->
                IF derived(a)
                THEN [s2.Token[a] EXCEPT !.latestUSDPrice =
                        Some(valueInUSD(s2,
                            Load(s2.LatestPrice,
                                 Unwrap(s2.Token[a].latestPrice)).price,
                            tokenAddress))]
                ELSE s2.Token[a]]]

updateLatestPrice(s, tokenPrice) ==
    LET tokenAddress == tokenPrice.asset
        pricingAsset == tokenPrice.pricingAsset
        latestPriceId == getLatestPriceId(tokenAddress, pricingAsset)
        latestPrice ==
            IF Exists(s.LatestPrice, latestPriceId)
            THEN Load(s.LatestPrice, latestPriceId)
            ELSE [id |-> latestPriceId, asset |-> tokenPrice.asset,
                  pricingAsset |-> tokenPrice.pricingAsset,
                  block |-> 0, poolId |-> "", price |-> ZERO_BD]
        s1 == [s EXCEPT !.LatestPrice =
                  Save(@, overwriteLatestPrice(latestPrice, tokenPrice))]
        token == getToken(s1, tokenAddress)
    IN  [s1 EXCEPT !.Token[tokenAddress] =
            pricedToken(s1, token, tokenPrice, latestPriceId)]

\* ------------------------------------------------------------ swapValueInUSD
\* Mutant: the sum of the two sides is always halved.
swapValueInUSD_AlwaysHalves(s, tokenInAddress, tokenAmountIn, tokenOutAddress, tokenAmountOut) ==
    IF isUSDStable(tokenOutAddress)
    THEN valueInUSD(s, tokenAmountOut, tokenOutAddress)
    ELSE IF isUSDStable(tokenInAddress)
    THEN valueInUSD(s, tokenAmountIn, tokenInAddress)
    ELSE IF isPricingAsset(tokenInAddress) /\ ~isPricingAsset(tokenOutAddress)
    THEN valueInUSD(s, tokenAmountIn, tokenInAddress)
    ELSE IF isPricingAsset(tokenOutAddress) /\ ~isPricingAsset(tokenInAddress)
    THEN valueInUSD(s, tokenAmountOut, tokenOutAddress)
    ELSE div(plus(valueInUSD(s, tokenAmountIn, tokenInAddress),
                  valueInUSD(s, tokenAmountOut, tokenOutAddress)), BD(2))

\* Mutant: the branch for a pricing asset on the out side values the in side.
swapValueInUSD_OutBranchValuesIn(s, tokenInAddress, tokenAmountIn, tokenOutAddress, tokenAmountOut) ==
    IF isUSDStable(tokenOutAddress)
    THEN valueInUSD(s, tokenAmountOut, tokenOutAddress)
    ELSE IF isUSDStable(tokenInAddress)
    THEN valueInUSD(s, tokenAmountIn, tokenInAddress)
    ELSE IF isPricingAsset(tokenInAddress) /\ ~isPricingAsset(tokenOutAddress)
    THEN valueInUSD(s, tokenAmountIn, tokenInAddress)
    ELSE IF isPricingAsset(tokenOutAddress) /\ ~isPricingAsset(tokenInAddress)
    THEN valueInUSD(s, tokenAmountIn, tokenInAddress)
    ELSE LET tokenInSwapValueUSD == valueInUSD(s, tokenAmountIn, tokenInAddress)
             tokenOutSwapValueUSD == valueInUSD(s, tokenAmountOut, tokenOutAddress)
             divisor == IF gt(tokenInSwapValueUSD, ZERO_BD)
                           /\ gt(tokenOutSwapValueUSD, ZERO_BD)
                        THEN BD(2) ELSE ONE_BD
         IN  div(plus(tokenInSwapValueUSD, tokenOutSwapValueUSD), divisor)

swapValueInUSD(s, tokenInAddress, tokenAmountIn, tokenOutAddress, tokenAmountOut) ==
    IF isUSDStable(tokenOutAddress)
    THEN valueInUSD(s, tokenAmountOut, tokenOutAddress)
    ELSE IF isUSDStable(tokenInAddress)
    THEN valueInUSD(s, tokenAmountIn, tokenInAddress)
    ELSE IF isPricingAsset(tokenInAddress) /\ ~isPricingAsset(tokenOutAddress)
    THEN valueInUSD(s, tokenAmountIn, tokenInAddress)
    ELSE IF isPricingAsset(tokenOutAddress) /\ ~isPricingAsset(tokenInAddress)
    THEN valueInUSD(s, tokenAmountOut, tokenOutAddress)
    ELSE LET tokenInSwapValueUSD == valueInUSD(s, tokenAmountIn, tokenInAddress)
             tokenOutSwapValueUSD == valueInUSD(s, tokenAmountOut, tokenOutAddress)
             divisor == IF gt(tokenInSwapValueUSD, ZERO_BD)
                           /\ gt(tokenOutSwapValueUSD, ZERO_BD)
                        THEN BD(2) ELSE ONE_BD
         IN  div(plus(tokenInSwapValueUSD, tokenOutSwapValueUSD), divisor)

\* ------------------------------------------------------------ getPreferentialPricingAsset
\* Array.includes
includes(assets, asset) == \E j \in 1..Len(assets) : assets[j] = asset

\* Mutant: the loop runs over the candidates and returns the first of them
\* that is a pricing asset.
RECURSIVE firstPricingCandidateFrom(_, _)
firstPricingCandidateFrom(assets, i) ==
    IF i > Len(assets) THEN ZERO_ADDRESS
    ELSE IF isPricingAsset(assets[i]) THEN assets[i]
    ELSE firstPricingCandidateFrom(assets, i + 1)
getPreferentialPricingAsset_FirstCandidate(assets) ==
    firstPricingCandidateFrom(assets, 1)

\* Lines 16-19: the loop over PRICING_ASSETS from index i on.
RECURSIVE preferentialPricingAssetFrom(_, _)
preferentialPricingAssetFrom(assets, i) ==
    IF i > Len(PRICING_ASSETS) THEN ZERO_ADDRESS
    ELSE IF includes(assets, PRICING_ASSETS[i]) THEN PRICING_ASSETS[i]
    ELSE preferentialPricingAssetFrom(assets, i + 1)

getPreferentialPricingAsset(assets) == preferentialPricingAssetFrom(assets, 1)

\* ------------------------------------------------------------ initial store
NoToken == [latestUSDPrice |-> NULL, latestPrice |-> NULL]

P1 == [id |-> "P1", address |-> BPT1, poolType |-> "Weighted",
       tokensList |-> <<TKN, WETH, USDC, WBTC>>,
       totalShares |-> BD(20), totalLiquidity |-> ZERO_BD]
\* WBTC is listed by P1 but has no PoolToken.
P1Tokens == {[id |-> getPoolTokenId("P1", TKN), balance |-> BD(10)],
             [id |-> getPoolTokenId("P1", WETH), balance |-> BD(5)],
             [id |-> getPoolTokenId("P1", USDC), balance |-> BD(3)]}

P2Tokens(list) ==
    {[id |-> getPoolTokenId("P2", list[i]), balance |-> BD(i + 1)] :
        i \in 1..Len(list)}
P2With(poolType, list, shares) ==
    [pool |-> [id |-> "P2", address |-> BPT2, poolType |-> poolType,
               tokensList |-> list, totalShares |-> shares,
               totalLiquidity |-> ZERO_BD],
     tokens |-> P2Tokens(list)]
\* The second pool: holding its own share token with and without virtual
\* supply, holding the first pool's share token, and with a single token.
P2Variants == {P2With("Weighted", <<WETH, BPT2>>, BD(4)),
               P2With("StablePhantom", <<WETH, BPT2>>, BD(3)),
               P2With("Weighted", <<WETH, BPT1>>, ZERO_BD),
               P2With("Weighted", <<WETH>>, BD(4))}

NoCall == [op |-> "none", poolId |-> "", block |-> 0, timestamp |-> 0,
           asset |-> "", pricingAsset |-> "", price |-> ZERO_BD,
           ret |-> "none", liquidityChange |-> ZERO_BD, replaced |-> 0,
           replay |-> FALSE, prevChange |-> ZERO_BD, overwrote |-> FALSE]

InitWith(vaults) ==
    /\ \E v \in P2Variants :
          /\ Pool = {P1, v.pool}
          /\ PoolToken = P1Tokens \cup v.tokens
    /\ Token = [a \in Addresses |-> NoToken]
    /\ LatestPrice = {}
    /\ PoolHistoricalLiquidity = {}
    /\ Balancer \in vaults
    /\ BalancerSnapshot = {}
    /\ PoolSnapshot = {}
    /\ observed = [p \in ObsPairs |-> NULL]
    /\ last = NoCall
    /\ calls = 0

TheVault == [id |-> "2", totalLiquidity |-> ZERO_BD]

\* The Balancer row exists: the factory handler creates it with the first pool.
Init == InitWith({{TheVault}})
\* Any store: the Balancer row may be missing.
InitAnyStore == InitWith({{TheVault}, {}})

\* ------------------------------------------------------------ actions
SetStore(s) ==
    /\ Pool' = s.Pool
    /\ PoolToken' = s.PoolToken
    /\ Token' = s.Token
    /\ LatestPrice' = s.LatestPrice
    /\ PoolHistoricalLiquidity' = s.PoolHistoricalLiquidity
    /\ Balancer' = s.Balancer
    /\ BalancerSnapshot' = s.BalancerSnapshot
    /\ PoolSnapshot' = s.PoolSnapshot

\* History: the call repeats the previous one, with no event in between.
SameCall(poolId, block, timestamp) ==
    /\ last.op = "updatePoolLiquidity"
    /\ last.poolId = poolId
    /\ last.block = block
    /\ last.timestamp = timestamp

\* History: the call left a different row under an id that had one already.
Overwrites(s, poolId, block) ==
    LET id == getPoolHistoricalLiquidityId(poolId, USD_STABLE_ASSETS[1], block)
    IN  /\ Exists(PoolHistoricalLiquidity, id)
        /\ Load(PoolHistoricalLiquidity, id) \notin s.PoolHistoricalLiquidity

UpdatePoolLiquidity(poolId, block, timestamp) ==
    /\ calls < MaxCalls
    /\ LET r == updatePoolLiquidity(Store, poolId, block, timestamp)
       IN  \* after a trap the host either keeps or discards the writes made
           \* before it
           \E kept \in (IF r.ret = "trap" THEN BOOLEAN ELSE {TRUE}) :
              LET final == IF kept THEN r.store ELSE Store
              IN  /\ SetStore(final)
                  /\ last' = [NoCall EXCEPT
                        !.op = "updatePoolLiquidity",
                        !.poolId = poolId, !.block = block,
                        !.timestamp = timestamp, !.ret = r.ret,
                        !.liquidityChange = r.liquidityChange,
                        !.replay = SameCall(poolId, block, timestamp),
                        !.prevChange = last.liquidityChange,
                        !.overwrote = Overwrites(final, poolId, block)]
    /\ calls' = calls + 1
    /\ UNCHANGED observed

UpdateLatestPrice(tokenPrice) ==
    /\ calls < MaxCalls
    /\ SetStore(updateLatestPrice(Store, tokenPrice))
    /\ LET id == getLatestPriceId(tokenPrice.asset, tokenPrice.pricingAsset)
       IN  last' = [NoCall EXCEPT !.op = "updateLatestPrice",
                                  !.asset = tokenPrice.asset,
                                  !.pricingAsset = tokenPrice.pricingAsset,
                                  !.block = tokenPrice.block,
                                  !.poolId = tokenPrice.poolId,
                                  !.price = tokenPrice.price,
                                  !.ret = "void",
                                  !.replaced = IF Exists(LatestPrice, id)
                                               THEN Load(LatestPrice, id).block
                                               ELSE 0]
    /\ observed' = [observed EXCEPT
                       ![<<tokenPrice.asset, tokenPrice.pricingAsset>>] =
                           Some(tokenPrice)]
    /\ calls' = calls + 1

\* updateBptPrice called on its own by a handler, with a stored pool.
UpdateBptPrice(poolId) ==
    /\ calls < MaxCalls
    /\ Exists(Pool, poolId)
    /\ SetStore(updateBptPrice(Store, Load(Pool, poolId)))
    /\ last' = [NoCall EXCEPT !.op = "updateBptPrice", !.poolId = poolId,
                              !.ret = "void"]
    /\ calls' = calls + 1
    /\ UNCHANGED observed

Next ==
    \/ \E poolId \in CallPoolIds, e \in Events :
          UpdatePoolLiquidity(poolId, e[1], e[2])
    \/ \E tokenPrice \in TokenPrices : UpdateLatestPrice(tokenPrice)
    \/ \E poolId \in PoolIds : UpdateBptPrice(poolId)

Spec == Init /\ [][Next]_vars
SpecAnyStore == InitAnyStore /\ [][Next]_vars

\* ------------------------------------------------------------ the pure functions
\* valueInUSD, swapValueInUSD and getPreferentialPricingAsset applied to
\* bounded inputs, over stores that differ in the prices recorded.
MaxCandidates == 2
Amounts == {ZERO_BD, BD(1), BD(3)}
SwapAssets == {USDC, DAI, WETH, WBTC, TKN, BPT1}
CandidateAssets == {WBTC, DAI, TKN}
CandidateLists ==
    UNION {[1..n -> CandidateAssets] : n \in 0..MaxCandidates}
\* Prices a Token may carry: none, zero, or a positive price (also on a
\* USD-stable token, after an observation priced it in another asset).
PurePrices ==
    {[a \in Addresses |->
        CASE a = USDC -> usdc [] a = WETH -> weth [] a = WBTC -> wbtc
          [] a = TKN -> tkn [] OTHER -> NULL] :
     usdc \in {NULL, Some(BD(3))}, weth \in {NULL, Some(ZERO_BD), Some(BD(2))},
     wbtc \in {NULL, Some(BD(4))}, tkn \in {NULL, Some(BD(5))}}

NoPureCall == [op |-> "none", tokenIn |-> "", amountIn |-> ZERO_BD,
               tokenOut |-> "", amountOut |-> ZERO_BD, candidates |-> <<>>,
               result |-> ZERO_BD, chosen |-> ""]

InitPure ==
    /\ Pool = {}
    /\ PoolToken = {}
    /\ \E prices \in PurePrices :
          Token = [a \in Addresses |->
                      [latestUSDPrice |-> prices[a], latestPrice |-> NULL]]
    /\ LatestPrice = {}
    /\ PoolHistoricalLiquidity = {}
    /\ Balancer = {TheVault}
    /\ BalancerSnapshot = {}
    /\ PoolSnapshot = {}
    /\ observed = [p \in ObsPairs |-> NULL]
    /\ last = NoPureCall
    /\ calls = 0

ValueInUSD(value, asset) ==
    /\ last' = [NoPureCall EXCEPT !.op = "valueInUSD",
                                  !.amountIn = value, !.tokenIn = asset,
                                  !.result = valueInUSD(Store, value, asset)]
    /\ UNCHANGED <<store, observed, calls>>

SwapValueInUSD(tokenIn, amountIn, tokenOut, amountOut) ==
    /\ last' = [NoPureCall EXCEPT
                    !.op = "swapValueInUSD",
                    !.tokenIn = tokenIn, !.amountIn = amountIn,
                    !.tokenOut = tokenOut, !.amountOut = amountOut,
                    !.result = swapValueInUSD(Store, tokenIn, amountIn,
                                              tokenOut, amountOut)]
    /\ UNCHANGED <<store, observed, calls>>

GetPreferentialPricingAsset(assets) ==
    /\ last' = [NoPureCall EXCEPT !.op = "getPreferentialPricingAsset",
                                  !.candidates = assets,
                                  !.chosen = getPreferentialPricingAsset(assets)]
    /\ UNCHANGED <<store, observed, calls>>

NextPure ==
    \/ \E value \in Amounts, asset \in Addresses : ValueInUSD(value, asset)
    \/ \E tokenIn \in SwapAssets, amountIn \in Amounts,
          tokenOut \in SwapAssets, amountOut \in Amounts :
          SwapValueInUSD(tokenIn, amountIn, tokenOut, amountOut)
    \/ \E assets \in CandidateLists : GetPreferentialPricingAsset(assets)

SpecPure == InitPure /\ [][NextPure]_vars

\* ------------------------------------------------------------ properties
\* A step that is a call of updatePoolLiquidity on an existing pool with at
\* least two tokens; ThePool is that pool before the call.
IsUpdatePoolLiquidity == last'.op = "updatePoolLiquidity" /\ calls' = calls + 1
IsUpdateLatestPrice == last'.op = "updateLatestPrice" /\ calls' = calls + 1
ValuedPool ==
    /\ IsUpdatePoolLiquidity
    /\ Exists(Pool, last'.poolId)
    /\ Len(Load(Pool, last'.poolId).tokensList) >= 2
ThePool == Load(Pool, last'.poolId)
ThePoolAfter == Load(Pool', last'.poolId)
VaultTotal == Load(Balancer, "2").totalLiquidity

\* C1: whenever the positivity of the newly computed total differs from that
\* of the pool's prior totalLiquidity, updatePoolLiquidity returns false and
\* leaves every entity as it was.
C1_SanityCheckAborts ==
    [][(/\ ValuedPool
        /\ (poolValueUSDOf(Store, ThePool) > 0) # (ThePool.totalLiquidity > 0))
       => (last'.ret = "false" /\ UNCHANGED store)]_vars

\* The sum the specification describes: valueInUSD of every balance but the
\* excluded share token's.
RECURSIVE SumValueInUSDFrom(_, _, _)
SumValueInUSDFrom(s, pool, j) ==
    IF j > Len(pool.tokensList) THEN 0
    ELSE LET tokenAddress == pool.tokensList[j]
             id == getPoolTokenId(pool.id, tokenAddress)
             counted == /\ Exists(s.PoolToken, id)
                        /\ ~(hasVirtualSupply(pool) /\ pool.address = tokenAddress)
             value == IF ~counted THEN 0
                      ELSE LET balance == Load(s.PoolToken, id).balance
                               price == s.Token[tokenAddress].latestUSDPrice
                           IN  IF isUSDStable(tokenAddress) THEN balance
                               ELSE IF price = NULL THEN 0
                               ELSE (balance * price[1]) \div SCALE
         IN  value + SumValueInUSDFrom(s, pool, j + 1)

\* C2: the total updatePoolLiquidity computes (and commits as
\* pool.totalLiquidity) is the sum of valueInUSD(balance, token) over the
\* counted constituents: a USD-stable token counts for its balance.
C2_TotalIsSumOfValueInUSD ==
    [][(ValuedPool /\ last'.ret = "true")
       => /\ ThePoolAfter.totalLiquidity = SumValueInUSDFrom(Store, ThePool, 1)
          /\ last'.liquidityChange =
                SumValueInUSDFrom(Store, ThePool, 1) - ThePool.totalLiquidity]_vars

\* ------------------------------------------------------------ C3
PoolLiquidity(s, poolId) == Load(s.Pool, poolId).totalLiquidity
VaultTotalOf(s) == Load(s.Balancer, "2").totalLiquidity
TokensOf(pool) == {pool.tokensList[j] : j \in 1..Len(pool.tokensList)}
\* Neither pool holds the other's share token.
Independent(p, q) == p.address \notin TokensOf(q) /\ q.address \notin TokensOf(p)

\* C3: from any reachable store, valuing two independent pools one after the
\* other raises Balancer.totalLiquidity by the sum of the two pools' changes,
\* and the total is the same in either order.
C3_AggregateOrderIndependent ==
    \A p \in Pool, q \in Pool, e1 \in Events, e2 \in Events :
        (p.id # q.id /\ Independent(p, q)) =>
            LET a == updatePoolLiquidity(Store, p.id, e1[1], e1[2])
                ab == updatePoolLiquidity(a.store, q.id, e2[1], e2[2])
                b == updatePoolLiquidity(Store, q.id, e2[1], e2[2])
                ba == updatePoolLiquidity(b.store, p.id, e1[1], e1[2])
                d1 == PoolLiquidity(a.store, p.id) - PoolLiquidity(Store, p.id)
                d2 == PoolLiquidity(ab.store, q.id) - PoolLiquidity(a.store, q.id)
            IN  (a.ret = "true" /\ ab.ret = "true" /\ b.ret = "true" /\ ba.ret = "true")
                => /\ VaultTotalOf(ab.store) = VaultTotalOf(Store) + d1 + d2
                   /\ VaultTotalOf(ba.store) = VaultTotalOf(ab.store)

\* Two independent pools have both been valued with a non-zero change, the
\* second just now, and the aggregate holds the sum of the two changes.
C3_Witness ==
    /\ last.op = "updatePoolLiquidity" /\ last.ret = "true"
    /\ last.liquidityChange # 0
    /\ \E p \in Pool, q \in Pool :
          /\ p.id # q.id /\ Independent(p, q)
          /\ q.id = last.poolId
          /\ p.totalLiquidity # 0 /\ q.totalLiquidity = last.liquidityChange
          /\ VaultTotal = p.totalLiquidity + q.totalLiquidity

\* ------------------------------------------------------------ C4, C5
\* A step that runs updatePoolLiquidity again with the arguments of the call
\* before it.
IsReplay ==
    /\ IsUpdatePoolLiquidity
    /\ last.op = "updatePoolLiquidity"
    /\ last'.poolId = last.poolId
    /\ last'.block = last.block
    /\ last'.timestamp = last.timestamp

\* The pool counts its own share token in its total.
CountsOwnShare(pool) ==
    /\ ~hasVirtualSupply(pool)
    /\ pool.address \in TokensOf(pool)
    /\ Exists(PoolToken, getPoolTokenId(pool.id, pool.address))

\* C4 as stated: the replay adds the first run's liquidity change to
\* Balancer.totalLiquidity a second time.
C4_ReplayDoubleCounts ==
    [][IsReplay => VaultTotal' = VaultTotal + last.liquidityChange]_vars

\* C4 amended: the replay adds only the difference between the total it
\* computes and the pool.totalLiquidity the first run stored; the aggregate is
\* left as it was unless the pool counts its own share token.
C4_ReplayAddsOwnChange ==
    [][IsReplay =>
        IF ValuedPool
        THEN /\ VaultTotal' =
                   VaultTotal + (ThePoolAfter.totalLiquidity - ThePool.totalLiquidity)
             /\ ~CountsOwnShare(ThePool) => VaultTotal' = VaultTotal
        ELSE VaultTotal' = VaultTotal]_vars

\* A replay of a run that had changed the pool's liquidity has left the
\* aggregate where the first run put it.
C4_Witness ==
    /\ last.op = "updatePoolLiquidity" /\ last.ret = "true"
    /\ last.replay
    /\ last.prevChange # 0
    /\ last.liquidityChange = 0
    /\ VaultTotal # 0

\* C5: a replay leaves the snapshot row, pool.totalLiquidity and every Token
\* price as the first run left them, whatever the pool holds.
C5_ReplayIdempotent ==
    [][(IsReplay /\ last.ret = "true" /\ last'.ret = "true") =>
        /\ PoolHistoricalLiquidity' = PoolHistoricalLiquidity
        /\ ThePoolAfter.totalLiquidity = ThePool.totalLiquidity
        /\ Token' = Token]_vars

\* ------------------------------------------------------------ C6
\* C6 as stated: a PoolHistoricalLiquidity row, once written, keeps its fields.
C6_RowsImmutable ==
    [][\A r \in PoolHistoricalLiquidity : r \in PoolHistoricalLiquidity']_vars

\* C6 amended: a row is never removed, and it changes only when a later
\* successful updatePoolLiquidity values the same pool at the same block,
\* which overwrites it with the values of that valuation.
C6_RowsChangeOnlyOnRevaluation ==
    [][\A r \in PoolHistoricalLiquidity :
          \/ r \in PoolHistoricalLiquidity'
          \/ /\ IsUpdatePoolLiquidity /\ last'.ret = "true"
             /\ last'.poolId = r.poolId /\ last'.block = r.block
             /\ \E r2 \in PoolHistoricalLiquidity' :
                   /\ r2.id = r.id /\ r2.poolId = r.poolId /\ r2.block = r.block
                   /\ r2.poolTotalShares = ThePoolAfter.totalShares
                   /\ r2.poolLiquidity = ThePoolAfter.totalLiquidity
                   /\ \A r3 \in PoolHistoricalLiquidity' : r3.id = r.id => r3 = r2]_vars

\* A valuation has just replaced the row written by an earlier valuation of
\* the same pool at the same block, after a price changed.
C6_Witness ==
    /\ last.op = "updatePoolLiquidity" /\ last.ret = "true"
    /\ last.overwrote
    /\ ~last.replay
    /\ \E r \in PoolHistoricalLiquidity :
          /\ r.poolId = last.poolId /\ r.block = last.block
          /\ r.poolLiquidity = PoolLiquidity(Store, last.poolId)

\* ------------------------------------------------------------ C7
\* C7: every call of updatePoolLiquidity returns true with the snapshot row,
\* the pool total, the share-token price, the Balancer total and its snapshot
\* written, or returns false with nothing written; it never raises.
C7_AllOrNothing ==
    [][IsUpdatePoolLiquidity =>
        \/ /\ last'.ret = "false"
           /\ UNCHANGED store
        \/ /\ last'.ret = "true"
           /\ Exists(PoolHistoricalLiquidity',
                     getPoolHistoricalLiquidityId(last'.poolId, USDC, last'.block))
           /\ ThePoolAfter.totalLiquidity =
                 ThePool.totalLiquidity + last'.liquidityChange
           /\ Exists(Balancer', "2")
           /\ \E b \in BalancerSnapshot' :
                 b.totalLiquidity = Load(Balancer', "2").totalLiquidity]_vars

\* ------------------------------------------------------------ C8
\* C8: for a pool id without Pool entity, or a pool with fewer than two
\* tokens, updatePoolLiquidity returns false and changes no entity.
C8_MalformedPoolNoOp ==
    [][(/\ IsUpdatePoolLiquidity
        /\ \/ ~Exists(Pool, last'.poolId)
           \/ Len(ThePool.tokensList) < 2)
       => (last'.ret = "false" /\ UNCHANGED store)]_vars

\* The call on a pool of one token has returned false, after other calls
\* had written entities.
C8_Witness ==
    /\ last.op = "updatePoolLiquidity" /\ last.ret = "false"
    /\ Exists(Pool, last.poolId)
    /\ Len(Load(Pool, last.poolId).tokensList) = 1
    /\ PoolHistoricalLiquidity # {}
    /\ LatestPrice # {}

\* ------------------------------------------------------------ C9
LatestPricesOf(asset, pricingAsset) ==
    {r \in LatestPrice : r.asset = asset /\ r.pricingAsset = pricingAsset}

\* C9: each (asset, pricingAsset) pair has at most one LatestPrice record, and
\* it carries block, poolId and price of the observation processed last for
\* the pair, whatever the order of the blocks.
C9_LastWriteWins ==
    \A pair \in ObsPairs :
        LET records == LatestPricesOf(pair[1], pair[2])
        IN  /\ Cardinality(records) <= 1
            /\ observed[pair] = NULL => records = {}
            /\ observed[pair] # NULL =>
                  \E r \in records :
                      /\ r.block = observed[pair][1].block
                      /\ r.poolId = observed[pair][1].poolId
                      /\ r.price = observed[pair][1].price

\* The observation processed last carried a lower block than the record it
\* overwrote, and the pair's one record carries its fields.
C9_Witness ==
    /\ last.op = "updateLatestPrice"
    /\ last.replaced > last.block
    /\ \E r \in LatestPrice :
          /\ LatestPricesOf(last.asset, last.pricingAsset) = {r}
          /\ r.block = last.block /\ r.poolId = last.poolId /\ r.price = last.price

\* ------------------------------------------------------------ C10
\* C10: after updateLatestPrice the asset's Token has latestUSDPrice equal to
\* the observed price when the pricing asset is USD-stable, zero when the
\* pricing asset has no latestUSDPrice, and the price times the pricing
\* asset's latestUSDPrice otherwise (read before the call); its latestPrice
\* is the id of the pair's LatestPrice record.
C10_TokenPriceAfterObservation ==
    [][IsUpdateLatestPrice =>
        LET pricing == Token[last'.pricingAsset].latestUSDPrice
            expected == IF last'.pricingAsset \in {USDC, DAI} THEN last'.price
                        ELSE IF pricing = NULL THEN 0
                        ELSE (last'.price * pricing[1]) \div SCALE
        IN  /\ Token'[last'.asset].latestUSDPrice = <<expected>>
            /\ Token'[last'.asset].latestPrice =
                  <<getLatestPriceId(last'.asset, last'.pricingAsset)>>]_vars

\* An observation priced in a non-stable, priced asset has just been
\* processed, and the asset's price is the product.
C10_Witness ==
    /\ last.op = "updateLatestPrice"
    /\ last.pricingAsset = WETH
    /\ Token[WETH].latestUSDPrice # NULL
    /\ Token[last.asset].latestUSDPrice =
          <<(last.price * Token[WETH].latestUSDPrice[1]) \div SCALE>>
    /\ Token[last.asset].latestUSDPrice[1] > last.price
    /\ Token[last.asset].latestPrice = <<<<last.asset, "-", WETH>>>>

\* ------------------------------------------------------------ C11
\* The snapshot row of the call just made.
TheRowAfter ==
    CHOOSE r \in PoolHistoricalLiquidity' :
        r.poolId = last'.poolId /\ r.pricingAsset = USDC /\ r.block = last'.block

\* C11: a successful updatePoolLiquidity leaves exactly one row for (poolId,
\* first USD-stable asset, block), holding the pool's totalShares, the total
\* just computed and that total divided by totalShares (zero when there are
\* no shares), and it stores the total as pool.totalLiquidity.
C11_SnapshotRowOfValuation ==
    [][(ValuedPool /\ last'.ret = "true") =>
        LET newTotal == ThePool.totalLiquidity + last'.liquidityChange
            rows == {r \in PoolHistoricalLiquidity' :
                        /\ r.poolId = last'.poolId
                        /\ r.pricingAsset = USDC
                        /\ r.block = last'.block}
        IN  /\ newTotal = poolValueUSDOf(Store, ThePool)
            /\ Cardinality(rows) = 1
            /\ TheRowAfter.poolTotalShares = ThePool.totalShares
            /\ TheRowAfter.poolLiquidity = newTotal
            /\ TheRowAfter.poolShareValue =
                  (IF ThePool.totalShares > 0
                   THEN (newTotal * SCALE) \div ThePool.totalShares
                   ELSE 0)
            /\ ThePoolAfter.totalLiquidity = newTotal]_vars

\* The example of the specification: balances 10 and 5 at prices 2 and 4 and
\* 20 shares give a row with liquidity 40 and share value 2.
C11_Witness ==
    /\ last.op = "updatePoolLiquidity" /\ last.ret = "true" /\ last.poolId = "P1"
    /\ Token[TKN].latestUSDPrice = <<2 * SCALE>>
    /\ Token[WETH].latestUSDPrice = <<4 * SCALE>>
    /\ Load(Pool, "P1").totalLiquidity = 40 * SCALE
    /\ \E r \in PoolHistoricalLiquidity :
          /\ r.poolId = "P1" /\ r.block = last.block
          /\ r.poolTotalShares = 20 * SCALE
          /\ r.poolLiquidity = 40 * SCALE
          /\ r.poolShareValue = 2 * SCALE

\* ------------------------------------------------------------ C12
IsUpdateBptPrice == last'.op = "updateBptPrice" /\ calls' = calls + 1
ShareTokenPrice(tokens, pool) == tokens[pool.address].latestUSDPrice

\* C12 as stated: updateBptPrice changes no Token when totalShares is zero and
\* else sets the share token's price to totalLiquidity / totalShares; so after
\* a successful updatePoolLiquidity with non-zero totalShares the share
\* token's price times totalShares equals pool.totalLiquidity, and the price
\* agrees with the row's poolShareValue.
C12_SharePriceTimesSharesIsLiquidity ==
    [][/\ IsUpdateBptPrice =>
            IF ThePool.totalShares = 0
            THEN Token' = Token
            ELSE ShareTokenPrice(Token', ThePool) =
                    <<(ThePool.totalLiquidity * SCALE) \div ThePool.totalShares>>
       /\ (ValuedPool /\ last'.ret = "true" /\ ThePool.totalShares # 0) =>
            /\ (ShareTokenPrice(Token', ThePool)[1] * ThePool.totalShares) \div SCALE
                  = ThePoolAfter.totalLiquidity
            /\ ShareTokenPrice(Token', ThePool)[1] = TheRowAfter.poolShareValue]_vars

\* C12 amended: the price stored is the BigDecimal quotient
\* totalLiquidity / totalShares, which agrees with the row's poolShareValue
\* when totalShares > 0; times totalShares it gives totalLiquidity back
\* exactly when the division is exact, and otherwise differs from it by less
\* than totalShares units of the quotient's last digit.
C12_SharePriceIsQuotient ==
    [][/\ IsUpdateBptPrice =>
            /\ \A a \in Addresses : a # ThePool.address => Token'[a] = Token[a]
            /\ IF ThePool.totalShares = 0
               THEN Token' = Token
               ELSE ShareTokenPrice(Token', ThePool) =
                       <<(ThePool.totalLiquidity * SCALE) \div ThePool.totalShares>>
       /\ (ValuedPool /\ last'.ret = "true") =>
            /\ \A a \in Addresses : a # ThePool.address => Token'[a] = Token[a]
            /\ IF ThePool.totalShares = 0
               THEN Token' = Token
               ELSE LET price == ShareTokenPrice(Token', ThePool)[1]
                        liquidity == ThePoolAfter.totalLiquidity
                        shares == ThePool.totalShares
                    IN  /\ price = (liquidity * SCALE) \div shares
                        /\ shares > 0 => price = TheRowAfter.poolShareValue
                        /\ (liquidity * SCALE) % shares = 0 =>
                              price * shares = liquidity * SCALE
                        /\ liquidity * SCALE - price * shares > -shares
                        /\ liquidity * SCALE - price * shares < shares]_vars

\* A valuation has just priced the share token of a pool whose total does
\* not divide by its shares: price times shares falls short of the total.
C12_Witness ==
    /\ last.op = "updatePoolLiquidity" /\ last.ret = "true"
    /\ Exists(Pool, last.poolId)
    /\ LET pool == Load(Pool, last.poolId)
           price == ShareTokenPrice(Token, pool)
       IN  /\ pool.totalShares > 0
           /\ price = <<(pool.totalLiquidity * SCALE) \div pool.totalShares>>
           /\ (price[1] * pool.totalShares) \div SCALE < pool.totalLiquidity

\* ------------------------------------------------------------ C13
\* The USD value of x of asset a as the specification states it, from the
\* recorded prices.
UsdValue(tokens, x, a) ==
    IF a \in {USDC, DAI} THEN x
    ELSE IF tokens[a].latestUSDPrice = NULL THEN 0
    ELSE (x * tokens[a].latestUSDPrice[1]) \div SCALE

\* C13: valueInUSD(x, a) is x for a USD-stable asset whatever price is
\* recorded for it, 0 for another asset without recorded price, and else x
\* times the recorded price; the call changes no entity.
C13_ValueInUSD ==
    [][last'.op = "valueInUSD" =>
        /\ last'.result = UsdValue(Token, last'.amountIn, last'.tokenIn)
        /\ UNCHANGED store]_vars

\* valueInUSD of a USD-stable asset that carries a recorded price other than
\* one has returned the amount itself.
C13_Witness ==
    /\ last.op = "valueInUSD"
    /\ last.tokenIn = USDC
    /\ Token[USDC].latestUSDPrice = <<3 * SCALE>>
    /\ last.amountIn = 3 * SCALE
    /\ last.result = 3 * SCALE

\* ------------------------------------------------------------ C14
Stable(a) == a \in {USDC, DAI}
Pricing(a) == a \in {WETH, WBTC, USDC, DAI}

\* The four steps of the specification.
SwapUsdValue(tokens, a, x, b, y) ==
    IF Stable(b) THEN UsdValue(tokens, y, b)
    ELSE IF Stable(a) THEN UsdValue(tokens, x, a)
    ELSE IF Pricing(a) # Pricing(b)
    THEN (IF Pricing(a) THEN UsdValue(tokens, x, a) ELSE UsdValue(tokens, y, b))
    ELSE LET vIn == UsdValue(tokens, x, a)
             vOut == UsdValue(tokens, y, b)
         IN  IF vIn > 0 /\ vOut > 0
             THEN ((vIn + vOut) * SCALE) \div (2 * SCALE)
             ELSE vIn + vOut

\* C14: swapValueInUSD follows the precedence: out side USD-stable, in side
\* USD-stable, the one side that is a pricing asset, else the average of two
\* positive values or the undivided sum.
C14_SwapValuePrecedence ==
    [][last'.op = "swapValueInUSD" =>
        last'.result = SwapUsdValue(Token, last'.tokenIn, last'.amountIn,
                                    last'.tokenOut, last'.amountOut)]_vars

\* A swap between two priced pricing assets, neither USD-stable, has been
\* valued at the average of its sides.
C14_Witness ==
    /\ last.op = "swapValueInUSD"
    /\ last.tokenIn = WETH /\ last.tokenOut = WBTC
    /\ last.amountIn = 3 * SCALE /\ last.amountOut = 1 * SCALE
    /\ Token[WETH].latestUSDPrice = <<2 * SCALE>>
    /\ Token[WBTC].latestUSDPrice = <<4 * SCALE>>
    /\ last.result = 5 * SCALE

\* ------------------------------------------------------------ C15
SwapOf(a, x, b, y) == swapValueInUSD(Store, a, x, b, y)
\* Neither side USD-stable and both or neither a pricing asset.
AveragingCase(a, b) == ~Stable(a) /\ ~Stable(b) /\ Pricing(a) = Pricing(b)

\* C15 as stated: swapping the labels leaves the value unchanged for all
\* amounts in the averaging case, and in every other case there are amounts
\* for which the two calls differ.
C15_SymmetricOnlyWhenAveraging ==
    last.op = "swapValueInUSD" =>
        LET a == last.tokenIn
            b == last.tokenOut
        IN  IF AveragingCase(a, b)
            THEN \A x \in Amounts, y \in Amounts :
                    SwapOf(a, x, b, y) = SwapOf(b, y, a, x)
            ELSE \E x \in Amounts, y \in Amounts :
                    SwapOf(a, x, b, y) # SwapOf(b, y, a, x)

\* C15 amended: swapping the labels leaves the value unchanged for all
\* amounts unless both sides are USD-stable; with both sides USD-stable the
\* value is the out side's amount, so the two calls differ whenever the
\* amounts differ.
C15_SymmetricUnlessBothStable ==
    /\ \A a \in SwapAssets, b \in SwapAssets, x \in Amounts, y \in Amounts :
          IF Stable(a) /\ Stable(b)
          THEN /\ SwapOf(a, x, b, y) = y
               /\ SwapOf(b, y, a, x) = x
          ELSE SwapOf(a, x, b, y) = SwapOf(b, y, a, x)
    /\ last.op = "swapValueInUSD" =>
          /\ last.result = SwapOf(last.tokenIn, last.amountIn,
                                  last.tokenOut, last.amountOut)
          /\ ~(Stable(last.tokenIn) /\ Stable(last.tokenOut)) =>
                last.result = SwapOf(last.tokenOut, last.amountOut,
                                     last.tokenIn, last.amountIn)

\* A swap with a pricing asset on the out side only has been valued, with
\* sides of different worth, and the call with the labels swapped gives the
\* same value.
C15_Witness ==
    /\ last.op = "swapValueInUSD"
    /\ last.tokenIn = TKN /\ last.tokenOut = WETH
    /\ Token[TKN].latestUSDPrice = <<5 * SCALE>>
    /\ Token[WETH].latestUSDPrice = <<2 * SCALE>>
    /\ last.amountIn = 1 * SCALE /\ last.amountOut = 3 * SCALE
    /\ last.result = 6 * SCALE
    /\ SwapOf(WETH, 3 * SCALE, TKN, 1 * SCALE) = 6 * SCALE

\* ------------------------------------------------------------ C16
ElementsOf(assets) == {assets[j] : j \in 1..Len(assets)}
PricingIndexesIn(assets) ==
    {i \in 1..Len(PRICING_ASSETS) : PRICING_ASSETS[i] \in ElementsOf(assets)}
MostPreferredIn(assets) ==
    IF PricingIndexesIn(assets) = {} THEN ZERO_ADDRESS
    ELSE PRICING_ASSETS[CHOOSE i \in PricingIndexesIn(assets) :
                            \A k \in PricingIndexesIn(assets) : i <= k]

\* C16: getPreferentialPricingAsset returns the pricing asset of smallest
\* index among the candidates, whatever their order, the zero address exactly
\* when no candidate is a pricing asset, and changes no entity.
C16_PreferentialPricingAsset ==
    [][last'.op = "getPreferentialPricingAsset" =>
        /\ last'.chosen = MostPreferredIn(last'.candidates)
        /\ (last'.chosen = ZERO_ADDRESS) <=>
              (\A j \in 1..Len(last'.candidates) :
                  last'.candidates[j] \notin {WETH, WBTC, USDC, DAI})
        /\ \A other \in CandidateLists :
              ElementsOf(other) = ElementsOf(last'.candidates) =>
                  getPreferentialPricingAsset(other) = last'.chosen
        /\ UNCHANGED store]_vars

\* The candidates list the less preferred pricing asset first, and the more
\* preferred one has been returned.
C16_Witness ==
    /\ last.op = "getPreferentialPricingAsset"
    /\ last.candidates = <<DAI, WBTC>>
    /\ last.chosen = WBTC

\* ------------------------------------------------------------ C17
\* The store with another price and balance of the pool's own share token.
WithOwnShare(s, pool, price, balance) ==
    [s EXCEPT !.Token[pool.address].latestUSDPrice = price,
              !.PoolToken = {IF r.id = <<pool.id, "-", pool.address>>
                             THEN [r EXCEPT !.balance = balance] ELSE r : r \in @}]
OwnPrices == {NULL, <<0>>, <<1 * SCALE>>, <<7 * SCALE>>}
OwnBalances == {0, 1 * SCALE, 5 * SCALE}

\* Balance times recorded price of every listed token that has both, the
\* tokens in skip left out.
RECURSIVE SumPricedFrom(_, _, _, _)
SumPricedFrom(s, pool, j, skip) ==
    IF j > Len(pool.tokensList) THEN 0
    ELSE LET a == pool.tokensList[j]
             id == <<pool.id, "-", a>>
             value == IF a \in skip \/ ~Exists(s.PoolToken, id)
                         \/ s.Token[a].latestUSDPrice = NULL
                      THEN 0
                      ELSE (Load(s.PoolToken, id).balance
                              * s.Token[a].latestUSDPrice[1]) \div SCALE
         IN  value + SumPricedFrom(s, pool, j + 1, skip)

\* C17: the total of a pool with virtual supply that lists its own share
\* token is the same whatever balance and price that token has; a pool
\* without virtual supply counts its own share token as any other token.
C17_VirtualSupplyExcluded ==
    \A pool \in Pool :
        IF hasVirtualSupply(pool) /\ pool.address \in TokensOf(pool)
        THEN /\ poolValueUSDOf(Store, pool) =
                   SumPricedFrom(Store, pool, 1, {pool.address})
             /\ \A price \in OwnPrices, balance \in OwnBalances :
                   poolValueUSDOf(WithOwnShare(Store, pool, price, balance), pool)
                      = poolValueUSDOf(Store, pool)
        ELSE /\ poolValueUSDOf(Store, pool) = SumPricedFrom(Store, pool, 1, {})
             /\ \A price \in OwnPrices, balance \in OwnBalances :
                   LET s == WithOwnShare(Store, pool, price, balance)
                   IN  poolValueUSDOf(s, pool) = SumPricedFrom(s, pool, 1, {})

\* A pool with virtual supply has been valued while its own share token,
\* which it lists and holds, carried a positive price: the total is the
\* value of its other token alone.
C17_Witness ==
    /\ last.op = "updatePoolLiquidity" /\ last.ret = "true"
    /\ Exists(Pool, last.poolId)
    /\ LET pool == Load(Pool, last.poolId)
       IN  /\ hasVirtualSupply(pool)
           /\ pool.address \in TokensOf(pool)
           /\ Exists(PoolToken, <<pool.id, "-", pool.address>>)
           /\ Load(PoolToken, <<pool.id, "-", pool.address>>).balance > 0
           /\ last.replay
           /\ Token[pool.address].latestUSDPrice # NULL
           /\ Token[pool.address].latestUSDPrice[1] > 0
           /\ Token[WETH].latestUSDPrice # NULL
           /\ pool.totalLiquidity > 0
           /\ pool.totalLiquidity =
                 (Load(PoolToken, <<pool.id, "-", WETH>>).balance
                    * Token[WETH].latestUSDPrice[1]) \div SCALE

\* ------------------------------------------------------------ C18
RECURSIVE SumPoolLiquidity(_)
SumPoolLiquidity(pools) ==
    IF pools = {} THEN 0
    ELSE LET p == CHOOSE q \in pools : TRUE
         IN  p.totalLiquidity + SumPoolLiquidity(pools \ {p})

Commits == IsUpdatePoolLiquidity /\ last'.ret = "true"
SnapshotIdAfter == <<"2", "-", dayOf(last'.timestamp)>>

\* C18: the Balancer total equals the sum of the pools' totalLiquidity
\* before and after every call, the snapshot of the day of a committed
\* valuation holds that total, and no other call touches total or snapshots.
C18_AggregateConserved ==
    [][/\ VaultTotal = SumPoolLiquidity(Pool)
       /\ VaultTotal' = SumPoolLiquidity(Pool')
       /\ IF Commits
          THEN /\ Exists(BalancerSnapshot', SnapshotIdAfter)
               /\ Load(BalancerSnapshot', SnapshotIdAfter).totalLiquidity
                     = VaultTotal'
          ELSE /\ Balancer' = Balancer
               /\ BalancerSnapshot' = BalancerSnapshot
               /\ \A p \in Pool' : \E q \in Pool :
                     q.id = p.id /\ q.totalLiquidity = p.totalLiquidity]_vars

\* Both pools hold value, the one valued last holds the other pool's priced
\* share token and counts it, and the total is the sum of the two.
C18_Witness ==
    /\ last.op = "updatePoolLiquidity" /\ last.ret = "true"
    /\ last.poolId = "P2"
    /\ Exists(PoolToken, <<"P2", "-", BPT1>>)
    /\ Token[BPT1].latestUSDPrice # NULL
    /\ Token[BPT1].latestUSDPrice[1] > 0
    /\ Load(Pool, "P1").totalLiquidity > 0
    /\ Load(Pool, "P2").totalLiquidity >
          (Load(PoolToken, <<"P2", "-", WETH>>).balance
             * Token[WETH].latestUSDPrice[1]) \div SCALE
    /\ VaultTotal = Load(Pool, "P1").totalLiquidity
                      + Load(Pool, "P2").totalLiquidity
    /\ Exists(BalancerSnapshot, <<"2", "-", dayOf(last.timestamp)>>)
    /\ Load(BalancerSnapshot, <<"2", "-", dayOf(last.timestamp)>>).totalLiquidity
          = VaultTotal

\* ------------------------------------------------------------ C19
TheLatestPriceId == getLatestPriceId(last'.asset, last'.pricingAsset)

\* C19: updateLatestPrice changes the LatestPrice record of the observed pair
\* and the Token of the observed asset, and nothing else: every other Token
\* and LatestPrice record, the pools, their rows and snapshots and the
\* Balancer total are as before.
C19_OnlyObservedPairChanges ==
    [][IsUpdateLatestPrice =>
        /\ \A a \in Addresses \ {last'.asset} : Token'[a] = Token[a]
        /\ {r \in LatestPrice' : r.id # TheLatestPriceId}
              = {r \in LatestPrice : r.id # TheLatestPriceId}
        /\ Cardinality({r \in LatestPrice' : r.id = TheLatestPriceId}) = 1
        /\ Pool' = Pool
        /\ PoolToken' = PoolToken
        /\ PoolHistoricalLiquidity' = PoolHistoricalLiquidity
        /\ PoolSnapshot' = PoolSnapshot
        /\ Balancer' = Balancer
        /\ BalancerSnapshot' = BalancerSnapshot]_vars

\* TKN was priced in WETH, WETH has been observed again since, and the
\* stored price of TKN is no longer what its record is worth now.
C19_Witness ==
    /\ last.op = "updateLatestPrice"
    /\ last.asset = WETH
    /\ Token[TKN].latestPrice = <<getLatestPriceId(TKN, WETH)>>
    /\ Exists(LatestPrice, getLatestPriceId(TKN, WETH))
    /\ Token[TKN].latestUSDPrice # NULL
    /\ Token[TKN].latestUSDPrice[1] > 0
    /\ Token[TKN].latestUSDPrice[1] #
          valueInUSD(Store, Load(LatestPrice, getLatestPriceId(TKN, WETH)).price,
                     WETH)

\* ------------------------------------------------------------ C20
UnpricedObservation ==
    /\ IsUpdateLatestPrice
    /\ ~Stable(last'.pricingAsset)
    /\ Token[last'.pricingAsset].latestUSDPrice = NULL

\* C20: no call makes a present latestUSDPrice absent, and an observation
\* priced in a non-stable asset that has no price stores a present zero.
C20_PriceStaysPresent ==
    [][/\ \A a \in Addresses :
             Token[a].latestUSDPrice # NULL => Token'[a].latestUSDPrice # NULL
       /\ UnpricedObservation =>
             Token'[last'.asset].latestUSDPrice = Some(ZERO_BD)]_vars

\* TKN had a positive price from an observation in USDC and was then
\* observed in WETH, which has no price: its price is present and zero.
C20_Witness ==
    /\ last.op = "updateLatestPrice"
    /\ last.asset = TKN /\ last.pricingAsset = WETH
    /\ last.price > 0
    /\ Token[WETH].latestUSDPrice = NULL
    /\ observed[<<TKN, USDC>>] # NULL
    /\ Unwrap(observed[<<TKN, USDC>>]).price > 0
    /\ Token[TKN].latestUSDPrice = Some(ZERO_BD)

====
